---------------------------- MODULE Spec2Model ----------------------------
(***************************************************************************)
(* Model of super_stepper.py: the process-wide task registry, the step     *)
(* decorator and its wrapper, summary(), start_workflow(), reset().        *)
(*                                                                         *)
(* A wrapper call is two steps: the part before the unit of work runs      *)
(* (lines 88-120) and the part from the unit of work's result to the       *)
(* wrapper's return (lines 122-175).                                       *)
(*                                                                         *)
(* Spec is the execution thread alone: the update_spinner threads are      *)
(* neither counted nor scheduled.  SpecRefresher is the execution thread   *)
(* together with the update_spinner threads that _start_live_display       *)
(* starts, each tick of a thread being one step.                           *)
(***************************************************************************)
EXTENDS Integers, Sequences, FiniteSets, TLC

(* ------------------------------ bounds -------------------------------- *)
\* number of distinct step(phase, task, increment)(func) closures created
MaxWrappers == 2
\* number of wrapper calls between two runs of _auto_reset; it caps the
\* length of _failed_tasks and _all_task_messages
MaxCalls == 2
\* number of update_spinner threads that have not returned
MaxRefreshers == 2

(* ------------------------- python values ------------------------------ *)
\* Values a unit of work can return, with the shape Python sees.
PyBool(x) == [kind |-> "bool", b |-> x, n |-> 0, s |-> "", elems |-> <<>>]
PyInt(x) == [kind |-> "int", b |-> FALSE, n |-> x, s |-> "", elems |-> <<>>]
PyStr(x) == [kind |-> "str", b |-> FALSE, n |-> 0, s |-> x, elems |-> <<>>]
PyNone == [kind |-> "none", b |-> FALSE, n |-> 0, s |-> "", elems |-> <<>>]
PyTuple(es) == [kind |-> "tuple", b |-> FALSE, n |-> 0, s |-> "", elems |-> es]
PyList(es) == [kind |-> "list", b |-> FALSE, n |-> 0, s |-> "", elems |-> es]
\* an exception object whose str() is x, as in "return False, e"
PyExc(x) == [kind |-> "exc", b |-> FALSE, n |-> 0, s |-> x, elems |-> <<>>]

\* bool(v)
Truthy(v) ==
    CASE v.kind = "bool" -> v.b
      [] v.kind = "int" -> v.n # 0
      [] v.kind = "str" -> v.s # ""
      [] v.kind = "none" -> FALSE
      [] v.kind = "exc" -> TRUE
      [] OTHER -> Len(v.elems) > 0

Digits == <<"0", "1", "2", "3", "4", "5", "6", "7", "8", "9">>

RECURSIVE IntStr(_)
IntStr(n) ==
    IF n < 10 THEN Digits[n + 1]
    ELSE IntStr(n \div 10) \o Digits[(n % 10) + 1]

\* str(v) for the scalar values
Str(v) ==
    CASE v.kind = "bool" -> (IF v.b THEN "True" ELSE "False")
      [] v.kind = "int" -> IntStr(v.n)
      [] v.kind = "str" -> v.s
      [] v.kind = "none" -> "None"
      [] v.kind = "exc" -> v.s
      [] OTHER -> "(...)"

ReturnValues ==
    { PyBool(TRUE), PyBool(FALSE), PyNone,
      PyTuple(<<PyBool(FALSE), PyStr("X")>>),
      PyTuple(<<PyBool(TRUE), PyStr("X")>>),
      PyTuple(<<PyBool(TRUE), PyNone>>),
      PyTuple(<<PyInt(0), PyExc("X")>>),
      PyTuple(<<PyBool(FALSE), PyStr("X"), PyStr("X")>>),
      PyList(<<PyBool(FALSE), PyStr("X")>>) }

\* What a unit of work can do: return a value, or raise.  isException tells
\* a fault derived from Exception from one derived from BaseException only
\* (KeyboardInterrupt, SystemExit); text is str(e).
Returns(v) == [kind |-> "return", val |-> v, isException |-> FALSE, text |-> ""]
Raises(ex, t) == [kind |-> "raise", val |-> PyNone, isException |-> ex, text |-> t]
NoOutcome == [kind |-> "none", val |-> PyNone, isException |-> FALSE, text |-> ""]

Outcomes ==
    { Returns(v) : v \in ReturnValues }
    \cup { Raises(TRUE, "X"), Raises(TRUE, ""), Raises(FALSE, "X") }

(* ----------------------------- state ---------------------------------- *)
VARIABLES
    tasks,              \* _tasks: phase -> list of descriptors
    failed_tasks,       \* _failed_tasks
    all_task_messages,  \* _all_task_messages
    phase_order,        \* _phase_order
    live_display,       \* _live_display is a started Live (TRUE) or None
    current_task,       \* _current_task: <<phase, task>> or <<>> for None
    display_started,    \* _display_started
    workflow_started,   \* _workflow_started
    wrappers,           \* the wrappers that step(...)(func) has returned
    pc,                 \* "idle", or "executing" inside a wrapper
    cur,                \* the closure (phase, task, increment, func) running
    task_entry,         \* the wrapper's local task_entry
    calls,              \* wrapper calls since _auto_reset last ran
    invoked,            \* the wrappers called since _auto_reset last ran
    returned,           \* those of them whose call has returned a value
    finished,           \* summary() has run since the last wrapper call
    spinner_index,      \* _spinner_index
    refreshers,         \* update_spinner threads that have not returned
    rpc,                \* where the update_spinner thread that is followed
                        \* through _generate_display stands
    riter,              \* its position in "for phase in _phase_order"
    rphase,             \* its local phase
    display,            \* its local display, the Text it is building
    frame,              \* the Text the Live was last given to paint
    last                \* the last operation and what came out of it

vars == <<tasks, failed_tasks, all_task_messages, phase_order, live_display,
          current_task, display_started, workflow_started, wrappers, pc,
          cur, task_entry, calls, invoked, returned, finished, spinner_index,
          refreshers, rpc, riter, rphase, display, frame, last>>

NoTask == <<>>
NoWrapper == [phase |-> "", task |-> "", increment |-> 0, func |-> ""]
NoLine == [kind |-> "none", failed |-> 0, total |-> 0]

Closure(ph, tk, inc, f) == [phase |-> ph, task |-> tk, increment |-> inc, func |-> f]

\* The decorations the calling program can make: two phases; "t2" sorts
\* before "t1" in "pa"; (pa, t1, 2) is declared for two different functions;
\* f is also decorated for phase "pb".
Decorations ==
    { Closure("pa", "t1", 2, "f"), Closure("pa", "t2", 1, "g"),
      Closure("pa", "t1", 2, "g"), Closure("pb", "t1", 1, "f") }

Descriptor(inc, tk, f, c, s, m) ==
    [increment |-> inc, task |-> tk, func |-> f,
     completed |-> c, success |-> s, message |-> m]

\* the empty dict
EmptyDict == [p \in {} |-> <<>>]

\* last: op names the operation; cleared tells what the operation's
\* _auto_reset discarded; out is what the unit of work did and ret what the
\* wrapper call gave its caller; line is the status line summary() printed
Op(name, didClear, out, ret, line) ==
    [op |-> name, cleared |-> didClear, out |-> out, ret |-> ret,
     line |-> line]

Init ==
    /\ tasks = EmptyDict
    /\ failed_tasks = <<>>
    /\ all_task_messages = <<>>
    /\ phase_order = <<>>
    /\ live_display = FALSE
    /\ current_task = NoTask
    /\ display_started = FALSE
    /\ workflow_started = FALSE
    /\ wrappers = {}
    /\ pc = "idle"
    /\ cur = NoWrapper
    /\ task_entry = 0
    /\ calls = 0
    /\ invoked = {}
    /\ returned = {}
    /\ finished = FALSE
    /\ spinner_index = 0
    /\ refreshers = 0
    /\ rpc = "none"
    /\ riter = 0
    /\ rphase = ""
    /\ display = <<>>
    /\ frame = <<>>
    /\ last = Op("init", "nothing", NoOutcome, "none", NoLine)

(* ---------------------------- helpers --------------------------------- *)
InSeq(x, s) == \E i \in 1..Len(s) : s[i] = x

\* the loop "for ... in _tasks[phase]: if inc == increment and tsk == task
\* and f == func": index of the first match, 0 when there is none
Matches(d, w) ==
    d.increment = w.increment /\ d.task = w.task /\ d.func = w.func

\* FindEntry as it would be if it took the first descriptor of the list
FindEntryFirst(lst, w) == IF Len(lst) > 0 THEN 1 ELSE 0

\* lines 104-107 (and 77-81): the index of the first descriptor of the list
\* with w's increment, task and func; 0 stands for None
FindEntry(lst, w) ==
    IF \E i \in 1..Len(lst) : Matches(lst[i], w)
    THEN CHOOSE i \in 1..Len(lst) :
            /\ Matches(lst[i], w)
            /\ \A j \in 1..(i - 1) : ~Matches(lst[j], w)
    ELSE 0

\* "if phase not in _tasks: _tasks[phase] = []": the registry with the key
EnsurePhase(t, ph) ==
    IF ph \in DOMAIN t THEN t
    ELSE [p \in (DOMAIN t) \cup {ph} |-> IF p = ph THEN <<>> ELSE t[p]]

\* EnsurePhaseOrder as it would be if it appended without its two tests
EnsurePhaseOrderAlways(t, po, ph) == Append(po, ph)

\* "if phase not in _phase_order: _phase_order.append(phase)", which the
\* code runs only when the phase was not a key of _tasks
EnsurePhaseOrder(t, po, ph) ==
    IF ph \in DOMAIN t THEN po
    ELSE IF InSeq(ph, po) THEN po ELSE Append(po, ph)

\* RegisterIfAbsent as it would be without the task_exists check
RegisterAlways(lst, w) ==
    Append(lst, Descriptor(w.increment, w.task, w.func, FALSE, FALSE, ""))

\* lines 76-84: register (increment, task, func, False, False, "") unless
\* the phase already lists it
RegisterIfAbsent(lst, w) ==
    IF FindEntry(lst, w) # 0 THEN lst
    ELSE Append(lst, Descriptor(w.increment, w.task, w.func, FALSE, FALSE, ""))

\* FallbackInsert as it would be if the lookup never found the descriptor
FallbackInsertDuplicate(lst, w) ==
    Append(lst, Descriptor(w.increment, w.task, w.func, FALSE, FALSE, ""))

\* FallbackInsert as it would be if the wrapper put its descriptor back to
\* not completed on every call
FallbackInsertFresh(lst, w) ==
    IF FindEntry(lst, w) # 0
    THEN [lst EXCEPT ![FindEntry(lst, w)] =
            Descriptor(w.increment, w.task, w.func, FALSE, FALSE, "")]
    ELSE Append(lst, Descriptor(w.increment, w.task, w.func, FALSE, FALSE, ""))

\* lines 102-112: the wrapper's lookup, with the fallback insert on a miss
FallbackInsert(lst, w) ==
    IF FindEntry(lst, w) # 0 THEN lst
    ELSE Append(lst, Descriptor(w.increment, w.task, w.func, FALSE, FALSE, ""))

\* Normalize as it would be without the "if message else" of line 131
NormalizeKeepMessage(v) ==
    IF v.kind = "tuple" /\ Len(v.elems) = 2
    THEN [success |-> Truthy(v.elems[1]), message |-> Str(v.elems[2])]
    ELSE [success |-> Truthy(v), message |-> ""]

\* lines 126-135: (success, message) of a returned value
Normalize(v) ==
    IF v.kind = "tuple" /\ Len(v.elems) = 2
    THEN [success |-> Truthy(v.elems[1]),
          message |-> IF Truthy(v.elems[2]) THEN Str(v.elems[2]) ELSE ""]
    ELSE [success |-> Truthy(v), message |-> ""]

\* Caught as it would be without the try/except around the unit of work
CaughtNothing(out) == FALSE

\* "except Exception as e": the faults the handler catches
Caught(out) == out.kind = "raise" /\ out.isException

\* FaultRecord as it would be if the handler dropped str(e)
FaultRecordNoText(out) == [success |-> FALSE, message |-> ""]

\* lines 158-161: (success, message) recorded for a caught fault
FaultRecord(out) == [success |-> FALSE, message |-> out.text]

\* StoreDescriptor as it would be in an update in place, a field at a time,
\* of which the first step has been made
StoreCompletedFirst(old, new) == [old EXCEPT !.completed = new.completed]

\* lines 138 and 161, "_tasks[phase][task_entry] = (...)": the list's slot
\* goes from the old tuple to the new one in one store
StoreDescriptor(old, new) == new

\* CurrentTaskAfter as it would be without line 170, the handler's
\* "_current_task = None"
CurrentTaskKeptOnFault(out, ct) == IF out.kind = "raise" THEN ct ELSE NoTask

\* lines 148-149 and 169-170: _current_task when the wrapper has recorded
\* the result, on the normal path and in the handler
CurrentTaskAfter(out, ct) == NoTask

\* lines 140-142, 163-165
MessagesAfter(log, w, success, message) ==
    IF message # "" THEN Append(log, <<w.phase, w.task, message, success>>)
    ELSE log

\* FailuresAfter as it would be without the "if not success" of line 145
FailuresAfterAlways(log, w, success, message) ==
    Append(log, <<w.phase, w.task, message>>)

\* lines 144-146, 167
FailuresAfter(log, w, success, message) ==
    IF ~success THEN Append(log, <<w.phase, w.task, message>>) ELSE log

\* AutoResetNeeded as it would be if every call reset
AutoResetAlways(started) == TRUE

\* "if not _workflow_started:", line 91
AutoResetNeeded(started) == ~started

\* ResetTasks as it would be if it emptied the phases' lists and kept the keys
ResetTasksKeepPhases(t) == [ph \in DOMAIN t |-> <<>>]

\* _auto_reset, lines 325-334: what it leaves in each global
ResetTasks(t) == EmptyDict
ResetFailedKeep(log) == log
ResetFailed(log) == <<>>
ResetPhaseOrder(po) == <<>>
ResetMessages(log) == <<>>

RECURSIVE SumSeq(_)
SumSeq(s) == IF Len(s) = 0 THEN 0 ELSE s[1] + SumSeq(Tail(s))

CountIf(lst, P(_)) == Cardinality({i \in 1..Len(lst) : P(lst[i])})

\* StatusLine as it would be without the "No tasks found" branch
StatusLineNoEmptyCase(total, failed) ==
    IF failed > 0
    THEN [kind |-> "failed", failed |-> failed, total |-> total]
    ELSE [kind |-> "success", failed |-> total, total |-> total]

\* IsFailed as it would be without the "if completed" of line 274
IsFailedNotCompleted(d) == ~d.success

IsAny(d) == TRUE
IsCompleted(d) == d.completed
IsFailed(d) == d.completed /\ ~d.success

\* lines 265-277: the three counters of summary()
TotalTasks(t, po) == SumSeq([i \in 1..Len(po) |-> CountIf(t[po[i]], IsAny)])
CompletedTasks(t, po) == SumSeq([i \in 1..Len(po) |-> CountIf(t[po[i]], IsCompleted)])
FailedTasks(t, po) == SumSeq([i \in 1..Len(po) |-> CountIf(t[po[i]], IsFailed)])

\* lines 285-301: the status line
StatusLine(total, failed) ==
    IF total > 0
    THEN IF failed > 0
         THEN [kind |-> "failed", failed |-> failed, total |-> total]
         ELSE [kind |-> "success", failed |-> total, total |-> total]
    ELSE [kind |-> "no_tasks", failed |-> 0, total |-> 0]

\* line 303: _console.print()
BlankLine == [kind |-> "blank", failed |-> 0, total |-> 0]

\* all that summary() prints, lines 285-303: the status line, then an empty
\* line
SummaryOutput(line) == <<line, BlankLine>>

\* InsertStable as it would be in a sort that puts a later equal key first
InsertBeforeTies(s, x) ==
    LET k == Cardinality({i \in 1..Len(s) : s[i].increment < x.increment})
    IN SubSeq(s, 1, k) \o <<x>> \o SubSeq(s, k + 1, Len(s))

\* sorted(_tasks[phase], key=lambda x: x[0]), line 217: a stable sort, built
\* by inserting each element after those whose key is not greater
InsertStable(s, x) ==
    LET k == Cardinality({i \in 1..Len(s) : s[i].increment <= x.increment})
    IN SubSeq(s, 1, k) \o <<x>> \o SubSeq(s, k + 1, Len(s))

RECURSIVE SortedTasks(_)
SortedTasks(lst) ==
    IF Len(lst) = 0 THEN <<>>
    ELSE InsertStable(SortedTasks(SubSeq(lst, 1, Len(lst) - 1)), lst[Len(lst)])

\* lines 206-208: the phases _generate_display prints, in its order
RenderedPhases ==
    SelectSeq(phase_order, LAMBDA ph : Len(tasks[ph]) > 0)

\* line 50: the animation's frames, one glyph for each
spinner_chars ==
    <<"sp0", "sp1", "sp2", "sp3", "sp4", "sp5", "sp6", "sp7", "sp8", "sp9">>

\* lines 228-232: the text after the task's name
MessageText(msg) == IF msg # "" THEN " - " \o msg ELSE ""

\* TaskLine as it would be if the test of _current_task came before the
\* test of completed
TaskLineSpinnerFirst(d, ph, ct, idx) ==
    IF ct # NoTask /\ ct[1] = ph /\ ct[2] = d.task
    THEN [glyph |-> spinner_chars[idx + 1], name |-> d.task, text |-> ""]
    ELSE IF d.completed
    THEN [glyph |-> IF d.success THEN "check" ELSE "cross",
          name |-> d.task, text |-> MessageText(d.message)]
    ELSE [glyph |-> "queued", name |-> d.task, text |-> ""]

\* lines 219-242: the line _generate_display writes for descriptor d of
\* phase ph when _current_task is ct and _spinner_index is idx
TaskLine(d, ph, ct, idx) ==
    IF d.completed
    THEN [glyph |-> IF d.success THEN "check" ELSE "cross",
          name |-> d.task, text |-> MessageText(d.message)]
    ELSE IF ct # NoTask /\ ct[1] = ph /\ ct[2] = d.task
    THEN [glyph |-> spinner_chars[idx + 1], name |-> d.task, text |-> ""]
    ELSE [glyph |-> "queued", name |-> d.task, text |-> ""]

\* lines 210-219, 243: the header and the lines of one phase
PhaseSection(ph, lst, ct, idx) ==
    LET sorted_tasks == SortedTasks(lst)
    IN [header |-> ph,
        lines |-> [k \in 1..Len(lst) |-> TaskLine(sorted_tasks[k], ph, ct, idx)]]

\* _generate_display, lines 201-246, run in one go on _phase_order = po,
\* _tasks = t, _current_task = ct and _spinner_index = idx
GenerateDisplayOf(po, t, ct, idx) ==
    LET phases == SelectSeq(po, LAMBDA ph : Len(t[ph]) > 0)
    IN [k \in 1..Len(phases) |-> PhaseSection(phases[k], t[phases[k]], ct, idx)]

\* _generate_display run on the globals as they are now
GenerateDisplay(idx) ==
    GenerateDisplayOf(phase_order, tasks, current_task, idx)

(* ---------------------------- operations ------------------------------ *)
\* what an _auto_reset run now would discard
Discarded ==
    IF failed_tasks # <<>> THEN "failures"
    ELSE IF DOMAIN tasks # {} \/ all_task_messages # <<>> THEN "tasks"
    ELSE "nothing"

\* step(phase, task, increment)(func), lines 68-84 and 177
Decorate(ph, tk, inc, f) ==
    LET w == Closure(ph, tk, inc, f)
        t1 == EnsurePhase(tasks, ph)
    IN /\ pc = "idle"
       /\ Cardinality(wrappers \cup {w}) <= MaxWrappers
       /\ tasks' = [t1 EXCEPT ![ph] = RegisterIfAbsent(@, w)]
       /\ phase_order' = EnsurePhaseOrder(tasks, phase_order, ph)
       /\ wrappers' = wrappers \cup {w}
       /\ last' = Op("decorate", "nothing", NoOutcome, "none", NoLine)
       /\ UNCHANGED <<failed_tasks, all_task_messages, live_display,
                      current_task, display_started, workflow_started, pc,
                      cur, task_entry, calls, invoked, returned, finished>>

\* wrapper(*args, **kwargs) up to the call of func, lines 88-120
WrapperCall(w) ==
    LET doReset == AutoResetNeeded(workflow_started)
        t0 == IF doReset THEN ResetTasks(tasks) ELSE tasks
        po0 == IF doReset THEN ResetPhaseOrder(phase_order) ELSE phase_order
        ft0 == IF doReset THEN ResetFailed(failed_tasks) ELSE failed_tasks
        am0 == IF doReset THEN ResetMessages(all_task_messages)
               ELSE all_task_messages
        ld0 == IF doReset THEN FALSE ELSE live_display
        ds0 == IF doReset THEN FALSE ELSE display_started
        t1 == EnsurePhase(t0, w.phase)
        t2 == [t1 EXCEPT ![w.phase] = FallbackInsert(@, w)]
    IN /\ pc = "idle"
       /\ w \in wrappers
       /\ (IF doReset THEN 0 ELSE calls) < MaxCalls
       /\ calls' = (IF doReset THEN 0 ELSE calls) + 1
       /\ invoked' = (IF doReset THEN {} ELSE invoked) \cup {w}
       /\ returned' = (IF doReset THEN {} ELSE returned)
       /\ finished' = FALSE
       /\ tasks' = t2
       /\ phase_order' = EnsurePhaseOrder(t0, po0, w.phase)
       /\ failed_tasks' = ft0
       /\ all_task_messages' = am0
       /\ live_display' = IF ~ds0 THEN TRUE ELSE ld0
       /\ display_started' = TRUE
       /\ workflow_started' = TRUE
       /\ current_task' = <<w.phase, w.task>>
       /\ pc' = "executing"
       /\ cur' = w
       /\ task_entry' = FindEntry(t2[w.phase], w)
       /\ last' = Op("call", IF doReset THEN Discarded ELSE "nothing", NoOutcome,
                    "none", NoLine)
       /\ UNCHANGED wrappers

\* the unit of work does `out`, and the wrapper goes on to its return;
\* lines 122-175
WrapperReturn(out) ==
    /\ pc = "executing"
    /\ IF out.kind = "return" \/ Caught(out)
       THEN LET r == IF out.kind = "return" THEN Normalize(out.val)
                     ELSE FaultRecord(out)
            IN /\ tasks' = [tasks EXCEPT ![cur.phase][task_entry] =
                       StoreDescriptor(@,
                           Descriptor(cur.increment, cur.task, cur.func,
                                      TRUE, r.success, r.message))]
               /\ all_task_messages' =
                    MessagesAfter(all_task_messages, cur, r.success, r.message)
               /\ failed_tasks' =
                    FailuresAfter(failed_tasks, cur, r.success, r.message)
               /\ current_task' = CurrentTaskAfter(out, current_task)
               /\ returned' = returned \cup {cur}
               /\ last' = Op("return", "nothing", out,
                             IF r.success THEN "true" ELSE "false", NoLine)
       ELSE \* not an Exception: it leaves the wrapper through the try
            /\ last' = Op("return", "nothing", out, "raised", NoLine)
            /\ UNCHANGED <<tasks, all_task_messages, failed_tasks, current_task,
                           returned>>
    /\ pc' = "idle"
    /\ cur' = NoWrapper
    /\ task_entry' = 0
    /\ UNCHANGED <<phase_order, live_display, display_started,
                   workflow_started, wrappers, calls, invoked, finished>>

\* summary(), lines 257-306
Summary ==
    /\ pc = "idle"
    /\ live_display' = FALSE
    /\ workflow_started' = FALSE
    /\ finished' = TRUE
    /\ last' = Op("summary", "nothing", NoOutcome, "none",
                  StatusLine(TotalTasks(tasks, phase_order),
                             FailedTasks(tasks, phase_order)))
    /\ UNCHANGED <<tasks, failed_tasks, all_task_messages, phase_order,
                   current_task, display_started, wrappers, pc, cur,
                   task_entry, calls, invoked, returned>>

\* DisplayNeeded as it would be without the "not _display_started"
DisplayNeededAlways(started, t) == DOMAIN t # {}

\* "if not _display_started and _tasks:", line 315
DisplayNeeded(started, t) == ~started /\ DOMAIN t # {}

\* start_workflow(), lines 308-317
StartWorkflow ==
    /\ pc = "idle"
    /\ workflow_started' = TRUE
    /\ IF DisplayNeeded(display_started, tasks)
       THEN live_display' = TRUE /\ display_started' = TRUE
       ELSE UNCHANGED <<live_display, display_started>>
    /\ last' = Op("start_workflow", "nothing", NoOutcome, "none", NoLine)
    /\ UNCHANGED <<tasks, failed_tasks, all_task_messages, phase_order,
                   current_task, wrappers, pc, cur, task_entry,
                   calls, invoked, returned, finished>>

\* reset(), lines 337-342, with _auto_reset, lines 320-334
Reset ==
    /\ pc = "idle"
    /\ live_display' = FALSE
    /\ tasks' = ResetTasks(tasks)
    /\ failed_tasks' = ResetFailed(failed_tasks)
    /\ phase_order' = ResetPhaseOrder(phase_order)
    /\ all_task_messages' = ResetMessages(all_task_messages)
    /\ display_started' = FALSE
    /\ workflow_started' = FALSE
    /\ calls' = 0
    /\ invoked' = {}
    /\ returned' = {}
    /\ last' = Op("reset", Discarded, NoOutcome, "none", NoLine)
    /\ UNCHANGED <<current_task, wrappers, pc, cur, task_entry, finished>>

\* the update_spinner threads are left out of the step
NoRefreshers ==
    UNCHANGED <<spinner_index, refreshers, rpc, riter, rphase, display, frame>>

Next ==
    \/ \E d \in Decorations :
          Decorate(d.phase, d.task, d.increment, d.func) /\ NoRefreshers
    \/ \E w \in wrappers : WrapperCall(w) /\ NoRefreshers
    \/ \E out \in Outcomes : WrapperReturn(out) /\ NoRefreshers
    \/ Summary /\ NoRefreshers
    \/ StartWorkflow /\ NoRefreshers
    \/ Reset /\ NoRefreshers

Spec == Init /\ [][Next]_vars

(* ------------------------ the refresher threads ------------------------ *)
\* len(_spinner_chars)
NumSpinnerChars == 10

\* what the unit of work does in SpecRefresher: it succeeds or it fails
RefresherOutcomes == { Returns(PyBool(TRUE)), Returns(PyBool(FALSE)) }

\* the decorations the calling program makes in SpecRefresher: a phase
\* whose second task sorts first, and a second phase
RefresherDecorations ==
    { Closure("pa", "t1", 2, "f"), Closure("pa", "t2", 1, "g"),
      Closure("pb", "t1", 1, "f") }

\* RegistryAfterRender as it would be if line 217 sorted the list in place
RenderSortsInPlace(t) == [ph \in DOMAIN t |-> SortedTasks(t[ph])]

\* _generate_display, lines 201-246: it reads _phase_order, _tasks,
\* _current_task and _spinner_index and builds a Text; sorted() gives a new
\* list, so the registry is after the render what it was before
RegistryAfterRender(t) == t

\* the wrapper runs _start_live_display when, after the _auto_reset it may
\* have run, _display_started is False; lines 91-93, 115-117 and 334
CallStartsDisplay == AutoResetNeeded(workflow_started) \/ ~display_started

\* the execution thread's step seen with the update_spinner threads:
\* _start_live_display starts one more, line 197-198
WithRefreshers(started) ==
    /\ refreshers' = refreshers + (IF started THEN 1 ELSE 0)
    /\ refreshers' <= MaxRefreshers
    /\ UNCHANGED <<spinner_index, rpc, riter, rphase, display, frame>>

\* LoopTest as it would be if update_spinner looped with "while True"
LoopTestAlways(ld) == TRUE

\* line 187, "while _live_display and _live_display.is_started": ld tells
\* that _live_display is a started Live
LoopTest(ld) == ld

\* one iteration of update_spinner's loop while the display is started,
\* lines 187-191
RefresherTick ==
    /\ refreshers > 0
    /\ LoopTest(live_display)
    /\ spinner_index' = (spinner_index + 1) % NumSpinnerChars
    /\ tasks' = RegistryAfterRender(tasks)
    /\ UNCHANGED <<failed_tasks, all_task_messages, phase_order, live_display,
                   current_task, display_started, workflow_started, wrappers,
                   pc, cur, task_entry, calls, invoked, returned, finished,
                   refreshers, rpc, riter, rphase, display, frame, last>>

\* update_spinner's loop test fails, line 187: the thread returns
RefresherExit ==
    /\ refreshers > 0
    /\ ~LoopTest(live_display)
    /\ refreshers' = refreshers - 1
    /\ UNCHANGED <<tasks, failed_tasks, all_task_messages, phase_order,
                   live_display, current_task, display_started,
                   workflow_started, wrappers, pc, cur, task_entry, calls,
                   invoked, returned, finished, spinner_index, rpc, riter,
                   rphase, display, frame, last>>

RefresherNext ==
    \/ \E d \in RefresherDecorations :
          Decorate(d.phase, d.task, d.increment, d.func) /\ WithRefreshers(FALSE)
    \/ \E w \in wrappers : WrapperCall(w) /\ WithRefreshers(CallStartsDisplay)
    \/ \E out \in RefresherOutcomes : WrapperReturn(out) /\ WithRefreshers(FALSE)
    \/ Summary /\ WithRefreshers(FALSE)
    \/ StartWorkflow /\ WithRefreshers(DisplayNeeded(display_started, tasks))
    \/ Reset /\ WithRefreshers(FALSE)
    \/ RefresherTick
    \/ RefresherExit

SpecRefresher == Init /\ [][RefresherNext]_vars

(* ------------------- the life of the live display --------------------- *)
\* The outcomes and decorations of the program whose display is followed
\* from start to stop: what a task returns does not reach _live_display.
DisplayOutcomes == {Returns(PyBool(TRUE))}

DisplayDecorations == {Closure("pa", "t1", 2, "f"), Closure("pb", "t1", 1, "f")}

DisplayNext ==
    \/ \E d \in DisplayDecorations :
          Decorate(d.phase, d.task, d.increment, d.func) /\ WithRefreshers(FALSE)
    \/ \E w \in wrappers : WrapperCall(w) /\ WithRefreshers(CallStartsDisplay)
    \/ \E out \in DisplayOutcomes : WrapperReturn(out) /\ WithRefreshers(FALSE)
    \/ Summary /\ WithRefreshers(FALSE)
    \/ StartWorkflow /\ WithRefreshers(DisplayNeeded(display_started, tasks))
    \/ Reset /\ WithRefreshers(FALSE)
    \/ RefresherTick
    \/ RefresherExit

\* An update_spinner thread is a running thread: between two iterations it
\* sleeps 0.1 s (line 191) and then tests its loop again, whatever the
\* execution thread does.
SpecDisplayFair ==
    Init /\ [][DisplayNext]_vars /\ WF_vars(RefresherTick) /\ WF_vars(RefresherExit)

(* -------- the execution thread and one render, step by step ----------- *)
\* One update_spinner thread is followed through _generate_display while
\* the execution thread runs: rpc is "none" (no thread), "loop" (at the loop
\* test of line 187), "iterate" (at "for phase in _phase_order", line 206),
\* "lookup" (at "_tasks[phase]", line 207) or "failed" (the thread has died
\* of an exception raised in the render).  The program starts a display only
\* when the thread of the display before has returned.
\* The program followed has one task; its unit of work returns True (the
\* write of line 138) or raises an Exception (the write of line 161).
InterleavedOutcomes == { Returns(PyBool(TRUE)), Raises(TRUE, "X") }

InterleavedDecorations == { Closure("pa", "t1", 1, "f") }

\* the execution thread's step seen from the render: _start_live_display,
\* lines 193-198, gives the new Live a first Text, made of the globals as
\* they are at line 116 or 316, and starts the thread
Interleaved(started) ==
    /\ started => refreshers = 0
    /\ refreshers' = refreshers + (IF started THEN 1 ELSE 0)
    /\ rpc' = IF started THEN "loop" ELSE rpc
    /\ frame' = IF started
                THEN GenerateDisplayOf(phase_order', tasks', current_task,
                                       spinner_index)
                ELSE frame
    /\ UNCHANGED <<spinner_index, riter, rphase, display>>

\* the wrapper from the return of the unit of work to the pause: lines
\* 124-149, or 156-170 in the handler
RecordResult(out) ==
    /\ pc = "executing"
    /\ out.kind = "return" \/ Caught(out)
    /\ LET r == IF out.kind = "return" THEN Normalize(out.val)
                ELSE FaultRecord(out)
       IN /\ tasks' = [tasks EXCEPT ![cur.phase][task_entry] =
                  StoreDescriptor(@,
                      Descriptor(cur.increment, cur.task, cur.func,
                                 TRUE, r.success, r.message))]
          /\ all_task_messages' =
               MessagesAfter(all_task_messages, cur, r.success, r.message)
          /\ failed_tasks' =
               FailuresAfter(failed_tasks, cur, r.success, r.message)
          /\ current_task' = CurrentTaskAfter(out, current_task)
          /\ last' = Op("record", "nothing", out,
                        IF r.success THEN "true" ELSE "false", NoLine)
    /\ pc' = "recorded"
    /\ UNCHANGED <<phase_order, live_display, display_started,
                   workflow_started, wrappers, cur, task_entry, calls,
                   invoked, returned, finished>>

\* PauseEnds as it would be if the pause waited for the repaint
PauseWaitsForRepaint(painted) == painted

\* "time.sleep(0.2)", lines 151-152 and 172-173: the pause ends when its
\* time is over, whatever has been painted
PauseEnds(painted) == TRUE

\* Text fr has the line of a completed task tk of phase ph
ShowsCompleted(fr, ph, tk) ==
    \E k \in 1..Len(fr) :
       /\ fr[k].header = ph
       /\ \E n \in 1..Len(fr[k].lines) :
             /\ fr[k].lines[n].name = tk
             /\ fr[k].lines[n].glyph \in {"check", "cross"}

\* the end of the pause and the wrapper's return, lines 151-154, 172-175
FinishCall ==
    /\ pc = "recorded"
    /\ PauseEnds(ShowsCompleted(frame, cur.phase, cur.task))
    /\ pc' = "idle"
    /\ returned' = returned \cup {cur}
    /\ cur' = NoWrapper
    /\ task_entry' = 0
    /\ last' = [last EXCEPT !.op = "return"]
    /\ UNCHANGED <<tasks, failed_tasks, all_task_messages, phase_order,
                   live_display, current_task, display_started,
                   workflow_started, wrappers, calls, invoked, finished>>

\* lines 187-190: the loop test holds, the frame index moves on, and
\* "_live_display.update(_generate_display())" enters _generate_display
\* with an empty Text
RenderBegin ==
    /\ refreshers > 0
    /\ rpc = "loop"
    /\ LoopTest(live_display)
    /\ spinner_index' = (spinner_index + 1) % NumSpinnerChars
    /\ display' = <<>>
    /\ riter' = 0
    /\ rpc' = "iterate"
    /\ UNCHANGED <<tasks, failed_tasks, all_task_messages, phase_order,
                   live_display, current_task, display_started,
                   workflow_started, wrappers, pc, cur, task_entry, calls,
                   invoked, returned, finished, refreshers, rphase, frame,
                   last>>

\* line 206, "for phase in _phase_order": the list iterator gives the next
\* element of the list as it is now; when there is none the Text goes to
\* the Live (line 190), which paints it if it is started, and the thread
\* sleeps (line 191); a Live that was stopped meanwhile may paint it or not
RenderNextPhase ==
    /\ rpc = "iterate"
    /\ IF riter < Len(phase_order)
       THEN /\ rphase' = phase_order[riter + 1]
            /\ riter' = riter + 1
            /\ rpc' = "lookup"
            /\ UNCHANGED <<display, frame>>
       ELSE /\ frame' \in (IF live_display THEN {display} ELSE {display, frame})
            /\ rpc' = "loop"
            /\ UNCHANGED <<display, riter, rphase>>
    /\ UNCHANGED <<tasks, failed_tasks, all_task_messages, phase_order,
                   live_display, current_task, display_started,
                   workflow_started, wrappers, pc, cur, task_entry, calls,
                   invoked, returned, finished, spinner_index, refreshers,
                   last>>

\* lines 207-243: "_tasks[phase]" raises KeyError when the phase is not in
\* the registry, and the exception ends the thread; an empty list is
\* skipped; otherwise sorted() copies the list as it is now and the lines
\* of the phase are written from the copy
RenderLookup ==
    /\ rpc = "lookup"
    /\ IF rphase \notin DOMAIN tasks
       THEN /\ rpc' = "failed"
            /\ refreshers' = refreshers - 1
            /\ UNCHANGED display
       ELSE /\ rpc' = "iterate"
            /\ display' = IF Len(tasks[rphase]) = 0 THEN display
                          ELSE Append(display,
                                      PhaseSection(rphase, tasks[rphase],
                                                   current_task, spinner_index))
            /\ UNCHANGED refreshers
    /\ UNCHANGED <<tasks, failed_tasks, all_task_messages, phase_order,
                   live_display, current_task, display_started,
                   workflow_started, wrappers, pc, cur, task_entry, calls,
                   invoked, returned, finished, spinner_index, riter, rphase,
                   frame, last>>

\* line 187: the loop test fails and update_spinner returns
RenderExit ==
    /\ refreshers > 0
    /\ rpc = "loop"
    /\ ~LoopTest(live_display)
    /\ refreshers' = refreshers - 1
    /\ rpc' = "none"
    /\ UNCHANGED <<tasks, failed_tasks, all_task_messages, phase_order,
                   live_display, current_task, display_started,
                   workflow_started, wrappers, pc, cur, task_entry, calls,
                   invoked, returned, finished, spinner_index, riter, rphase,
                   display, frame, last>>

InterleavedNext ==
    \/ \E d \in InterleavedDecorations :
          Decorate(d.phase, d.task, d.increment, d.func) /\ Interleaved(FALSE)
    \/ \E w \in wrappers : WrapperCall(w) /\ Interleaved(CallStartsDisplay)
    \/ \E out \in InterleavedOutcomes : RecordResult(out) /\ Interleaved(FALSE)
    \/ FinishCall /\ Interleaved(FALSE)
    \/ Summary /\ Interleaved(FALSE)
    \/ StartWorkflow /\ Interleaved(DisplayNeeded(display_started, tasks))
    \/ Reset /\ Interleaved(FALSE)
    \/ RenderBegin
    \/ RenderNextPhase
    \/ RenderLookup
    \/ RenderExit

SpecInterleaved == Init /\ [][InterleavedNext]_vars

(* ------------------- a program that only runs tasks -------------------- *)
\* The calling program wraps tasks, invokes them and prints summaries; it
\* calls neither start_workflow() nor reset().
FreshNext ==
    \/ \E d \in Decorations :
          Decorate(d.phase, d.task, d.increment, d.func) /\ NoRefreshers
    \/ \E w \in wrappers : WrapperCall(w) /\ NoRefreshers
    \/ \E out \in Outcomes : WrapperReturn(out) /\ NoRefreshers
    \/ Summary /\ NoRefreshers

SpecFresh == Init /\ [][FreshNext]_vars

(* ------------------------------ claims -------------------------------- *)
\* a step in which a wrapper call ends, the unit of work having done last'.out
ReturnStep == pc = "executing" /\ last'.op = "return"

\* a step that runs _auto_reset: reset(), or a wrapper call in NotStarted
ResetStep ==
    \/ last'.op = "reset"
    \/ last'.op = "call" /\ ~workflow_started

\* the descriptor the running wrapper resolved, seen as the step ends
WrittenDescriptor == tasks'[cur.phase][task_entry]

Completed(w, success, message) ==
    Descriptor(w.increment, w.task, w.func, TRUE, success, message)

IsPrefix(a, b) == Len(a) <= Len(b) /\ SubSeq(b, 1, Len(a)) = a

C2_Expected(v) ==
    CASE v.kind = "bool" -> [success |-> v.b, message |-> ""]
      [] v.kind = "tuple" /\ Len(v.elems) = 2 ->
            [success |-> Truthy(v.elems[1]),
             message |-> IF Truthy(v.elems[2]) THEN Str(v.elems[2]) ELSE ""]
      [] OTHER -> [success |-> Truthy(v), message |-> ""]

\* C2: for every returned value the descriptor is written Completed with
\* the success and message of the claim's three cases (boolean, 2-element
\* pair, any other value), and the wrapper returns that success.
C2_ResultNormalization ==
    [][ReturnStep /\ last'.out.kind = "return"
        => LET e == C2_Expected(last'.out.val)
           IN /\ WrittenDescriptor = Completed(cur, e.success, e.message)
              /\ last'.ret = (IF e.success THEN "true" ELSE "false")]_vars

C2_Witness ==
    /\ last.op = "return"
    /\ last.out = Returns(PyTuple(<<PyInt(0), PyExc("X")>>))
    /\ last.ret = "false"
    /\ \E ph \in DOMAIN tasks : \E i \in 1..Len(tasks[ph]) :
          /\ tasks[ph][i].completed
          /\ ~tasks[ph][i].success
          /\ tasks[ph][i].message = "X"

C4_WriteOncePerTask ==
    \A i, j \in 1..Len(failed_tasks) :
        i < j => <<failed_tasks[i][1], failed_tasks[i][2]>>
                 # <<failed_tasks[j][1], failed_tasks[j][2]>>

\* C5: except in a step that runs _auto_reset, a completed descriptor stays
\* where it is in its phase and stays completed.
C5_NoRegression ==
    [][~ResetStep
        => \A ph \in DOMAIN tasks : \A i \in 1..Len(tasks[ph]) :
              tasks[ph][i].completed
              => /\ ph \in DOMAIN tasks'
                 /\ i <= Len(tasks'[ph])
                 /\ tasks'[ph][i].completed
                 /\ tasks'[ph][i].increment = tasks[ph][i].increment
                 /\ tasks'[ph][i].task = tasks[ph][i].task
                 /\ tasks'[ph][i].func = tasks[ph][i].func]_vars

\* a wrapped task is being invoked again after it completed
C5_Witness ==
    /\ pc = "executing"
    /\ last.op = "call"
    /\ tasks[cur.phase][task_entry].completed

\* the position of x in a sequence that holds it
Pos(s, x) == CHOOSE i \in 1..Len(s) : s[i] = x

NoDuplicates(s) == \A i, j \in 1..Len(s) : i # j => s[i] # s[j]

SameTask(d, e) ==
    d.increment = e.increment /\ d.task = e.task /\ d.func = e.func

C7_ExecutionKeepsPhaseOrder ==
    [][last'.op = "call"
        => /\ NoDuplicates(phase_order')
           /\ IsPrefix(phase_order, phase_order')]_vars

\* the descriptors of a phase that are closure w's
Entries(t, w) ==
    IF w.phase \in DOMAIN t
    THEN {i \in 1..Len(t[w.phase]) : Matches(t[w.phase][i], w)}
    ELSE {}

\* closure w was decorated in this step: it is the new closure if there is
\* one, and in any case the registry is as it was or has w's descriptor more
DecoratedNow(w) ==
    /\ w \in wrappers'
    /\ wrappers' = wrappers \cup {w}
    /\ Cardinality(Entries(tasks', w)) = Cardinality(Entries(tasks, w))
         + (IF tasks' = tasks THEN 0 ELSE 1)

\* C8: no phase ever holds two descriptors with the same (increment, task,
\* func); step(...)(func) leaves exactly one descriptor for its closure,
\* adding none when the phase lists it already; and while a wrapper runs
\* the phase holds exactly one descriptor for it.
C8_OneDescriptor ==
    [][/\ \A ph \in DOMAIN tasks' : \A i, j \in 1..Len(tasks'[ph]) :
             i # j => ~SameTask(tasks'[ph][i], tasks'[ph][j])
       /\ (last'.op = "decorate"
             => \E w \in Decorations :
                   /\ DecoratedNow(w)
                   /\ Cardinality(Entries(tasks', w)) = 1
                   /\ Entries(tasks, w) # {} => tasks' = tasks)
       /\ (pc' = "executing"
             => Cardinality(Entries(tasks', cur')) = 1)]_vars

\* step(...)(func) has been applied again for a task that has already run
C8_Witness ==
    /\ last.op = "decorate"
    /\ Cardinality(wrappers) = 1
    /\ \E w \in wrappers : \E i \in Entries(tasks, w) :
          tasks[w.phase][i].completed

\* C9: after reset() the registry, _phase_order, _failed_tasks and
\* _all_task_messages are empty and the workflow is not started, so a
\* summary() counts no task and no failure.
C9_ResetIsolates ==
    last.op = "reset"
    => /\ DOMAIN tasks = {}
       /\ phase_order = <<>>
       /\ failed_tasks = <<>>
       /\ all_task_messages = <<>>
       /\ ~workflow_started
       /\ TotalTasks(tasks, phase_order) = 0
       /\ FailedTasks(tasks, phase_order) = 0

\* reset() has discarded what a workflow had left
C9_Witness ==
    /\ last.op = "reset"
    /\ last.cleared = "failures"

\* what a wrapper call by closure w leaves when it runs the implicit reset
ImplicitReset(w) ==
    /\ DOMAIN tasks' = {w.phase}
    /\ tasks'[w.phase] = <<Descriptor(w.increment, w.task, w.func, FALSE, FALSE, "")>>
    /\ phase_order' = <<w.phase>>
    /\ failed_tasks' = <<>>
    /\ all_task_messages' = <<>>

\* what a wrapper call leaves when it does not reset
NoImplicitReset ==
    /\ failed_tasks' = failed_tasks
    /\ all_task_messages' = all_task_messages
    /\ IsPrefix(phase_order, phase_order')
    /\ \A ph \in DOMAIN tasks :
          ph \in DOMAIN tasks' /\ IsPrefix(tasks[ph], tasks'[ph])

\* the transitions of _workflow_started the claim lists
C10_Listed ==
    /\ (last'.op = "call" /\ ~workflow_started
          => workflow_started' /\ ImplicitReset(cur'))
    /\ (last'.op = "call" /\ workflow_started
          => workflow_started' /\ NoImplicitReset)
    /\ (last'.op = "summary" => ~workflow_started')
    /\ (last'.op = "reset" => ~workflow_started')

\* C10 (as stated): _workflow_started is False initially; a call in
\* NotStarted resets and moves to Running; a call in Running does not reset;
\* summary() and reset() move to NotStarted; nothing else changes it.
C10_NoOtherTransition ==
    /\ ~workflow_started
    /\ [][/\ C10_Listed
          /\ (workflow_started' # workflow_started
                => last'.op \in {"call", "summary", "reset"})]_vars

\* C10 (amended): as stated, with one more transition: start_workflow()
\* moves NotStarted (and Running) to Running, and resets nothing.
C10_WorkflowStateMachine ==
    /\ ~workflow_started
    /\ [][/\ C10_Listed
          /\ (last'.op = "start_workflow"
                => /\ workflow_started'
                   /\ UNCHANGED <<tasks, phase_order, failed_tasks,
                                   all_task_messages>>)
          /\ (workflow_started' # workflow_started
                => last'.op \in {"call", "summary", "reset", "start_workflow"})]_vars

\* the first call of a run has reset what the run before had left
C10_Witness ==
    /\ last.op = "call"
    /\ last.cleared = "failures"
    /\ pc = "executing"
    /\ workflow_started
    /\ failed_tasks = <<>>

\* C11: the first wrapper call after the summary() of a run in which tasks
\* were invoked clears what that run left (registry, _phase_order,
\* _failed_tasks, _all_task_messages) before it registers itself, whatever
\* was called in between.
C11_FirstCallAfterSummaryResets ==
    [][finished /\ invoked # {} /\ last'.op = "call"
        => ImplicitReset(cur')]_vars

\* the descriptors of closure w, and whether all of them are completed
OneCompleted(w) ==
    /\ Cardinality(Entries(tasks, w)) = 1
    /\ \A i \in Entries(tasks, w) : tasks[w.phase][i].completed

DescriptorsOf(po, t) ==
    UNION {{<<po[k], i>> : i \in 1..Len(t[po[k]])} : k \in 1..Len(po)}

\* C13: summary() counts total = the descriptors of the phases of
\* _phase_order, completed = those that are completed, failed = those that
\* are completed without success; it prints "failed of total tasks failed"
\* exactly when failed > 0 and the all-success line exactly when total > 0
\* and failed = 0.
C13_SummaryCounts ==
    LET all == DescriptorsOf(phase_order, tasks)
        total == Cardinality(all)
        completed == Cardinality({x \in all : tasks[x[1]][x[2]].completed})
        failed == Cardinality({x \in all : /\ tasks[x[1]][x[2]].completed
                                           /\ ~tasks[x[1]][x[2]].success})
    IN /\ TotalTasks(tasks, phase_order) = total
       /\ CompletedTasks(tasks, phase_order) = completed
       /\ FailedTasks(tasks, phase_order) = failed
       /\ (last.op = "summary"
             => /\ (last.line.kind = "failed") = (failed > 0)
                /\ (last.line.kind = "success") = (total > 0 /\ failed = 0)
                /\ last.line.kind = "failed"
                     => last.line.failed = failed /\ last.line.total = total
                /\ last.line.kind = "success" => last.line.total = total)

\* summary() has reported one failure among two tasks, one still pending
C13_Witness ==
    /\ last.op = "summary"
    /\ last.line = [kind |-> "failed", failed |-> 1, total |-> 2]
    /\ CompletedTasks(tasks, phase_order) = 1

\* C14: summary() on an empty registry prints the "no tasks" line and
\* leaves the workflow not started.
C14_EmptySummary ==
    last.op = "summary" /\ DescriptorsOf(phase_order, tasks) = {}
    => /\ last.line.kind = "no_tasks"
       /\ SummaryOutput(last.line)[1].kind = "no_tasks"
       /\ ~workflow_started

\* summary() was called after tasks had been wrapped and reset() had
\* emptied the registry
C14_Witness ==
    /\ last.op = "summary"
    /\ last.line.kind = "no_tasks"
    /\ wrappers # {}
    /\ DOMAIN tasks = {}

\* C15: summary() prints, for each entry of _failed_tasks in log order, an
\* entry with its 1-based index, phase, task and message.
C15_FailuresListed ==
    last.op = "summary"
    => LET o == SummaryOutput(last.line)
           listed == SelectSeq(o, LAMBDA x : x.kind = "failure")
       IN /\ Len(listed) = Len(failed_tasks)
          /\ \A i \in 1..Len(failed_tasks) :
                /\ listed[i].index = i
                /\ listed[i].phase = failed_tasks[i][1]
                /\ listed[i].task = failed_tasks[i][2]
                /\ listed[i].message = failed_tasks[i][3]

\* a step of the execution thread: no update_spinner thread ticks or returns
ExecutionStep == spinner_index' = spinner_index /\ refreshers' >= refreshers

\* C16: start_workflow() sets _workflow_started; it starts a refresher
\* exactly when _display_started is False and the registry is not empty,
\* and never more than one; it leaves the registry, _phase_order and
\* _failed_tasks alone; and a start_workflow() that follows a
\* start_workflow() changes nothing at all.
C16_StartWorkflowIdempotent ==
    [][ExecutionStep /\ last'.op = "start_workflow"
        => /\ last.op # "start_workflow"
           /\ workflow_started'
           /\ UNCHANGED <<tasks, phase_order, failed_tasks>>
           /\ refreshers' = refreshers
                 + (IF ~display_started /\ DOMAIN tasks # {} THEN 1 ELSE 0)
           /\ refreshers' > refreshers => live_display' /\ display_started']_vars

\* start_workflow() has started the display of the wrapped tasks, and can
\* be called again
C16_Witness ==
    /\ last.op = "start_workflow"
    /\ invoked = {}
    /\ live_display
    /\ display_started
    /\ refreshers = 1
    /\ workflow_started
    /\ DOMAIN tasks # {}

\* C17: while a display is started, at most one update_spinner loop runs.
C17_OneRefresher == live_display => refreshers <= 1

\* C18: whenever a unit of work is executing, the live display is started.
C18_RefresherWhileExecuting == pc = "executing" => live_display

\* C19: when a wrapper call starts the live display, the registry holds a
\* descriptor for every task wrapped so far, not completed for the tasks
\* not yet invoked.
C19_FirstFrameShowsAllTasks ==
    [][pc = "idle" /\ last'.op = "call" /\ CallStartsDisplay
        => \A w \in wrappers :
              /\ Entries(tasks', w) # {}
              /\ w \notin invoked'
                   => \A i \in Entries(tasks', w) :
                         ~tasks'[w.phase][i].completed]_vars

\* C20: a tick of update_spinner advances _spinner_index by one, modulo the
\* number of spinner characters, and changes nothing else: not the
\* registry, _phase_order, _current_task, the logs or _workflow_started.
C20_TickOnlyAdvancesFrame ==
    [][spinner_index' # spinner_index
        => /\ spinner_index' = (spinner_index + 1) % NumSpinnerChars
           /\ UNCHANGED <<tasks, phase_order, current_task, failed_tasks,
                           all_task_messages, workflow_started,
                           display_started, live_display>>]_vars

\* the refresher has ticked while a task runs in a phase whose list is not
\* in increment order
C20_Witness ==
    /\ spinner_index = 3
    /\ pc = "executing"
    /\ refreshers > 0
    /\ Len(tasks[cur.phase]) = 2
    /\ tasks[cur.phase][1].increment > tasks[cur.phase][2].increment

\* the unit of work came back to the wrapper's own code: it returned, or it
\* raised a fault the handler catches
CameBack(out) == out.kind = "return" \/ out.isException

\* the success the claims give the outcome of a unit of work
OwnSuccess(out) ==
    IF out.kind = "return" THEN C2_Expected(out.val).success ELSE FALSE

C26_CompletedIsTerminal ==
    [][~ResetStep
        => \A ph \in DOMAIN tasks : \A i \in 1..Len(tasks[ph]) :
              tasks[ph][i].completed
              => /\ ph \in DOMAIN tasks'
                 /\ i <= Len(tasks'[ph])
                 /\ tasks'[ph][i].success = tasks[ph][i].success
                 /\ tasks'[ph][i].message = tasks[ph][i].message]_vars

\* something the step removes: a phase, a descriptor, a phase of
\* _phase_order or an entry of _failed_tasks
Removes ==
    \/ \E ph \in DOMAIN tasks :
          \/ ph \notin DOMAIN tasks'
          \/ Len(tasks'[ph]) < Len(tasks[ph])
          \/ \E i \in 1..Len(tasks[ph]) : ~SameTask(tasks'[ph][i], tasks[ph][i])
    \/ ~IsPrefix(phase_order, phase_order')
    \/ ~IsPrefix(failed_tasks, failed_tasks')

\* C29: a step that removes anything is reset() or the first call's
\* implicit reset, and it removes every phase, every descriptor and every
\* entry of _failed_tasks (the call then registers itself); summary() and
\* start_workflow() remove nothing.
C29_ClearedWholesale ==
    [][/\ (Removes
             => \/ /\ last'.op = "reset"
                   /\ tasks' = EmptyDict
                   /\ phase_order' = <<>>
                   /\ failed_tasks' = <<>>
                \/ /\ last'.op = "call"
                   /\ ~workflow_started
                   /\ ImplicitReset(cur'))
       /\ (last'.op \in {"summary", "start_workflow"}
             => UNCHANGED <<tasks, phase_order, failed_tasks>>)]_vars

\* reset() has removed two phases, their descriptors and a failure entry
C29_Witness ==
    /\ last.op = "reset"
    /\ last.cleared = "failures"
    /\ tasks = EmptyDict
    /\ Cardinality(wrappers) = 2
    /\ \E w, x \in wrappers : w.phase # x.phase

\* the glyph the claim gives descriptor d of phase ph at frame idx
C27_Glyph(d, ph, idx) ==
    CASE d.completed /\ d.success -> "check"
      [] d.completed /\ ~d.success -> "cross"
      [] ~d.completed /\ current_task = <<ph, d.task>> -> spinner_chars[idx + 1]
      [] OTHER -> "queued"

\* glyph and name the claim gives descriptor d, and the text after a cross
C27_Expected(d, ph, idx) ==
    <<C27_Glyph(d, ph, idx), d.task,
      IF C27_Glyph(d, ph, idx) = "cross" /\ d.message # ""
      THEN " - " \o d.message ELSE "">>

\* glyph and name of a line of the display, and the text after a cross
C27_Shown(line) ==
    <<line.glyph, line.name, IF line.glyph = "cross" THEN line.text ELSE "">>

\* C27: the display has one line for each descriptor of each phase it
\* prints, and for every descriptor and every frame index the line's glyph
\* is the check for Completed and Success, the cross for Completed and
\* Failure, the spinner glyph of the frame index for a descriptor that is
\* not Completed and is _current_task, the queued glyph otherwise
\* (Completed wins over being _current_task); a cross is followed by the
\* message exactly when the message is not empty; the ten spinner glyphs
\* differ from each other and from the other glyphs.
C27_OneGlyphPerDescriptor ==
    /\ Len(spinner_chars) = NumSpinnerChars
    /\ \A i, j \in 1..NumSpinnerChars :
          /\ i # j => spinner_chars[i] # spinner_chars[j]
          /\ spinner_chars[i] \notin {"check", "cross", "queued"}
    /\ \A ph \in DOMAIN tasks : \A i \in 1..Len(tasks[ph]) :
          \A idx \in 0..(NumSpinnerChars - 1) :
             C27_Shown(TaskLine(tasks[ph][i], ph, current_task, idx))
               = C27_Expected(tasks[ph][i], ph, idx)
    /\ LET shown == GenerateDisplay(spinner_index)
       IN \A k \in 1..Len(shown) :
            LET ph == shown[k].header
                lines == shown[k].lines
            IN /\ Len(lines) = Len(tasks[ph])
               /\ \A n \in 1..Len(lines) :
                    Cardinality({m \in 1..Len(lines) :
                                   C27_Shown(lines[m]) = C27_Shown(lines[n])})
                    = Cardinality({i \in 1..Len(tasks[ph]) :
                                   C27_Expected(tasks[ph][i], ph, spinner_index)
                                     = C27_Shown(lines[n])})

\* a task that is already Completed is invoked again: it is _current_task
\* and the display shows its cross with its message
C27_Witness ==
    /\ pc = "executing"
    /\ current_task = <<cur.phase, cur.task>>
    /\ \E i \in Entries(tasks, cur) :
          /\ tasks[cur.phase][i].completed
          /\ ~tasks[cur.phase][i].success
          /\ tasks[cur.phase][i].message = "X"
    /\ \E ph \in DOMAIN tasks : \E i \in 1..Len(tasks[ph]) :
          ~tasks[ph][i].completed

\* C30: a step that leaves a unit of work executing starts no other task
\* and leaves the wrapper's task as _current_task and every descriptor as
\* it was; whenever a unit of work is executing the display is live and an
\* update_spinner thread is there to advance the frame; and the step in
\* which the unit of work returns or raises ends the wrapper call.
C30_StalledWorkBlocks ==
    [][/\ (pc = "executing" /\ pc' = "executing"
             => /\ cur' = cur
                /\ current_task' = <<cur.phase, cur.task>>
                /\ tasks' = tasks
                /\ invoked' = invoked)
       /\ (pc' = "executing" => live_display' /\ refreshers' > 0)
       /\ (ReturnStep => pc' = "idle")]_vars

\* C24: while the display is started the frame index does not stay where
\* it is, and it moves one frame at a time; once the display is stopped,
\* either a new display is started or every update_spinner thread returns;
\* and with no update_spinner thread left the frame index changes no more.
C24_TicksUntilStopped ==
    /\ \A v \in 0..(NumSpinnerChars - 1) :
          (live_display /\ spinner_index = v)
             ~> (~live_display \/ spinner_index # v)
    /\ (~live_display /\ refreshers > 0) ~> (live_display \/ refreshers = 0)
    /\ [][/\ spinner_index' # spinner_index
              => /\ live_display /\ refreshers > 0
                 /\ spinner_index' = (spinner_index + 1) % NumSpinnerChars
          /\ refreshers' < refreshers => ~live_display]_vars

\* summary() has stopped a display whose thread had advanced the frame,
\* and the thread has returned
C24_Witness ==
    /\ last.op = "summary"
    /\ ~live_display
    /\ refreshers = 0
    /\ spinner_index = 3

\* (completed, success, message) of d are the Pending values, or those one
\* invocation writes for one of the outcomes of the unit of work
C22_Whole(d) ==
    \/ ~d.completed /\ ~d.success /\ d.message = ""
    \/ \E out \in InterleavedOutcomes :
          LET r == IF out.kind = "return" THEN C2_Expected(out.val)
                   ELSE [success |-> FALSE, message |-> out.text]
          IN d.completed /\ d.success = r.success /\ d.message = r.message

\* C22: whenever the render is about to read the descriptors of a phase
\* (the copy of line 217), wherever the execution thread stands, each
\* descriptor of that phase has the fields of one single write, and so has
\* each line the render has written in its Text.
C22_NoTornDescriptor ==
    /\ rpc = "lookup" /\ rphase \in DOMAIN tasks
         => \A i \in 1..Len(tasks[rphase]) : C22_Whole(tasks[rphase][i])
    /\ \A k \in 1..Len(display) : \A n \in 1..Len(display[k].lines) :
          LET l == display[k].lines[n]
          IN \/ l.glyph \notin {"check", "cross"} /\ l.text = ""
             \/ \E out \in InterleavedOutcomes :
                   LET r == IF out.kind = "return" THEN C2_Expected(out.val)
                            ELSE [success |-> FALSE, message |-> out.text]
                   IN /\ l.glyph = (IF r.success THEN "check" ELSE "cross")
                      /\ l.text = MessageText(r.message)

\* the render reads the phase's descriptors between the wrapper's write of
\* a failure with its message and the wrapper's return, the Live still
\* showing the task as not completed
C22_Witness ==
    /\ rpc = "lookup"
    /\ pc = "recorded"
    /\ rphase = cur.phase
    /\ tasks[cur.phase][task_entry].completed
    /\ tasks[cur.phase][task_entry].message = "X"
    /\ ~ShowsCompleted(frame, cur.phase, cur.task)

\* C23: the render never looks up a phase that is not in the registry, and
\* the update_spinner thread never dies of an exception.
C23_RenderNeverFails ==
    /\ rpc # "failed"
    /\ rpc = "lookup" => rphase \in DOMAIN tasks

\* C28: the pause after the result is recorded waits for no repaint: the
\* wrapper can return in every state where it is in the pause, and
\* summary() can run in every state where no wrapper is running, whatever
\* the Live was last given to paint.
C28_PauseIsBestEffort ==
    /\ pc = "recorded" => ENABLED FinishCall
    /\ pc = "idle" => ENABLED Summary

\* a call has returned and summary() has stopped the display while an
\* update_spinner thread is still there, and the last Text painted shows
\* the task, now Completed, as not completed
C28_Witness ==
    /\ last.op = "summary"
    /\ ~live_display
    /\ refreshers > 0
    /\ \E w \in returned :
          /\ tasks[w.phase][1].completed
          /\ ~ShowsCompleted(frame, w.phase, w.task)
          /\ \E k \in 1..Len(frame) :
                /\ frame[k].header = w.phase
                /\ \E n \in 1..Len(frame[k].lines) :
                      frame[k].lines[n].name = w.task

\* the lines of Text fr that carry a spinner glyph
SpinnerLines(fr) ==
    UNION {{<<k, n>> : n \in {m \in 1..Len(fr[k].lines) :
                                \E i \in 1..NumSpinnerChars :
                                   fr[k].lines[m].glyph = spinner_chars[i]}} :
           k \in 1..Len(fr)}

\* C31: the Text _generate_display makes of the globals has at most one
\* line with a spinner glyph, whatever the registry holds.
C31_OneSpinnerPerFrame ==
    Cardinality(SpinnerLines(GenerateDisplay(spinner_index))) <= 1

\* C32: when summary() has run, the failures it counts (descriptors
\* completed without success) are as many as the entries of _failed_tasks.
C32_FailuresMatchLog ==
    last.op = "summary" => FailedTasks(tasks, phase_order) = Len(failed_tasks)

\* C33: when summary() has printed the "N of N tasks completed
\* successfully" line, every descriptor of the registry is completed with
\* success.
C33_SuccessLineMeansAllDone ==
    last.op = "summary" /\ last.line.kind = "success"
    => \A ph \in DOMAIN tasks : \A i \in 1..Len(tasks[ph]) :
          tasks[ph][i].completed /\ tasks[ph][i].success

\* C34: a wrapper call made while _workflow_started is True leaves every
\* phase its descriptors, each as it was and where it was, and adds at most
\* the called task's own not-completed descriptor; it leaves _phase_order
\* its phases in their order.  The return of the call changes only
\* descriptors of the called task (same increment, task and func), which
\* keep their place, and leaves _phase_order as it was.
C34_OthersUntouched ==
    [][/\ (pc = "idle" /\ last'.op = "call" /\ workflow_started
             => /\ IsPrefix(phase_order, phase_order')
                /\ \A ph \in DOMAIN tasks :
                      /\ ph \in DOMAIN tasks'
                      /\ IsPrefix(tasks[ph], tasks'[ph])
                /\ \A ph \in DOMAIN tasks' :
                      LET old == IF ph \in DOMAIN tasks THEN Len(tasks[ph]) ELSE 0
                      IN \A i \in (old + 1)..Len(tasks'[ph]) :
                            /\ ph = cur'.phase
                            /\ Matches(tasks'[ph][i], cur')
                            /\ ~tasks'[ph][i].completed)
       /\ (ReturnStep
             => /\ phase_order' = phase_order
                /\ DOMAIN tasks' = DOMAIN tasks
                /\ \A ph \in DOMAIN tasks :
                      /\ Len(tasks'[ph]) = Len(tasks[ph])
                      /\ \A i \in 1..Len(tasks[ph]) :
                            /\ SameTask(tasks'[ph][i], tasks[ph][i])
                            /\ ~(ph = cur.phase /\ Matches(tasks[ph][i], cur))
                                 => tasks'[ph][i] = tasks[ph][i])]_vars

\* a call made while the workflow was started has returned, in a phase
\* that holds the task's completed descriptor after one that is not
\* completed
C34_Witness ==
    /\ last.op = "return"
    /\ last.ret = "false"
    /\ last.cleared = "nothing"
    /\ workflow_started
    /\ \E ph \in DOMAIN tasks :
          /\ Len(tasks[ph]) = 2
          /\ tasks[ph][2].completed
          /\ ~tasks[ph][1].completed

\* C35: whenever no operation is running, _phase_order lists no phase
\* twice and its phases are the keys of _tasks.
C35_PhaseOrderMatchesRegistry ==
    pc = "idle"
    => /\ NoDuplicates(phase_order)
       /\ {phase_order[i] : i \in 1..Len(phase_order)} = DOMAIN tasks

\* after a reset the phases have come back in another order than before
C35_Witness ==
    /\ pc = "idle"
    /\ phase_order = <<"pb", "pa">>
    /\ DOMAIN tasks = {"pa", "pb"}
    /\ last.op = "return"

=============================================================================
